---- MODULE Spec2Model ----
(***************************************************************************)
(* The cross-thread call bridge of bench.py: a controller (AsyncIO, Trio   *)
(* or AnyIO) owns a SimpleQueue and one worker thread.  send() enqueues a  *)
(* call and returns a future, the worker thread dequeues, runs the call    *)
(* and posts a callback to the event loop, the event loop runs the posted  *)
(* callbacks and resumes the tasks awaiting the futures.                   *)
(***************************************************************************)
EXTENDS Integers, Sequences, FiniteSets, TLC

\* ---------------------------------------------------------------- bounds
MaxCalls == 3
MaxCloses == 2
\* the sends and closes of the behaviours checked for liveness
LiveCalls == 2
LiveCloses == 1
\* the set_future_result callbacks the event loop holds when a handle is reused
MaxResolves == 3
\* the times a caller awaits a handle again after its await returned
MaxReawaits == 1

\* ------------------------------------------------------------- constants
\* the queue item close() puts: None
None == 0
\* a result slot nothing has been assigned to yet
Unset == -1
\* the outcome of a call() that raises instead of returning
Raises == -2

Variants == {"AsyncIO", "Trio", "AnyIO"}
\* the argument the check call binds: send(lambda x: x + 2, 5)
FirstArg == 5
Args == {FirstArg}

\* functools.partial(func, *args): the callables a caller can submit.
\* "add2" is lambda x: x + 2, "zero" is lambda: 0, "boom" is any callable
\* that raises.
Partials ==
    [func : {"add2"}, arg : Args]
        \cup {[func |-> "zero", arg |-> 0], [func |-> "boom", arg |-> 0]}

\* call(): the value the partial returns, or Raises
Call(c) ==
    IF c.func = "add2" THEN c.arg + 2
    ELSE IF c.func = "zero" THEN 0
    ELSE Raises

VARIABLES
    variant,    \* which controller Auto() constructed
    queue,      \* self.queue: sequence of future ids and None
    futures,    \* futures created by send, by id: [call, result, ready]
    callbacks,  \* callbacks posted to the event loop, not yet run
    wpc,        \* position of the worker thread in worker_thread_run
    item,       \* worker local: the item q.get() returned
    ret,        \* worker local: the value call() returned
    ack,        \* AnyIO: the callback the worker waits for has returned
    tasks,      \* per future, the caller awaiting it: [state, got, suspended]
    closes,     \* number of close() calls so far
    log,        \* history: ids in the order the worker ran their calls
    posted,     \* history: ids in the order their notification was posted
    hist,       \* history per future: [writes, writer, setter, early]
    order       \* history: ids in the order their futures became ready

vars == <<variant, queue, futures, callbacks, wpc, item, ret, ack, tasks,
          closes, log, posted, hist, order>>

Ids == 1..Len(futures)

\* ---------------------------------------------------------- queue.SimpleQueue
\* a queue that holds one item and drops what does not fit
put_bounded(q, x) == IF Len(q) < 1 THEN Append(q, x) ELSE q

\* q.put(x)
put(q, x) == Append(q, x)

\* a get that takes the newest item instead of the oldest
get_lifo(q) == [item |-> q[Len(q)], rest |-> SubSeq(q, 1, Len(q) - 1)]

\* a get that leaves the item on the queue
get_peek(q) == [item |-> Head(q), rest |-> q]

\* q.get() on a non-empty queue: the item returned and the queue left
get(q) == [item |-> Head(q), rest |-> Tail(q)]

\* ------------------------------------------------------------------ futures
\* loop.create_future() / Future(event, call): pending, nothing in the slot
NewFuture(c) == [call |-> c, result |-> Unset, ready |-> FALSE]

\* the caller of a send, before it awaits the handle; again: the value a
\* repeated await returned, reawaits: the repeated awaits so far
NewTask ==
    [state |-> "none", got |-> Unset, suspended |-> FALSE, again |-> Unset,
     reawaits |-> 0]

\* a new history record; early: sent while no close() had been called
\* runs: the callbacks the event loop has run for the future
NewHist(e) ==
    [writes |-> 0, writer |-> {}, setter |-> {}, early |-> e, runs |-> 0]

\* an assignment to the result slot of future f by thread thr
NoteWrite(h, f, thr) ==
    [h EXCEPT ![f].writes = @ + 1, ![f].writer = @ \cup {thr}]

\* future f marked ready (future done / event set) by thread thr
NoteSet(h, f, thr) == [h EXCEPT ![f].setter = @ \cup {thr}]

\* asyncio future.set_result(result): stores the result and marks the
\* future done; on a future that is done it raises (InvalidStateError) and
\* leaves the future as it is
set_result(fut, result) ==
    IF fut.ready
    THEN [future |-> fut, raised |-> TRUE]
    ELSE [future |-> [fut EXCEPT !.result = result, !.ready = TRUE],
          raised |-> FALSE]

\* a set_future_result without the test of future.done()
set_future_result_unguarded(fs, f, result) ==
    [futures |-> [fs EXCEPT ![f] = set_result(fs[f], result).future],
     raised |-> set_result(fs[f], result).raised]

\* a call of AsyncIO.set_future_result: the futures it leaves and whether
\* it raised
set_future_result_call(fs, f, result) ==
    IF ~fs[f].ready
    THEN [futures |-> [fs EXCEPT ![f] = set_result(fs[f], result).future],
          raised |-> set_result(fs[f], result).raised]
    ELSE [futures |-> fs, raised |-> FALSE]

\* a callback for future f run by the event loop
NoteRun(h, f) == [h EXCEPT ![f].runs = @ + 1]

\* AsyncIO.set_future_result: if not future.done(): future.set_result(result)
set_future_result(fs, f, result) ==
    set_future_result_call(fs, f, result).futures

\* one result slot shared by all the futures of the controller
store_result_shared(fs, f, v) ==
    [g \in DOMAIN fs |-> [fs[g] EXCEPT !.result = v]]

\* future.result = <value> (Trio and AnyIO worker)
store_result(fs, f, v) == [fs EXCEPT ![f].result = v]

\* an event.set that wakes nobody
event_set_noop(fs, f) == fs

\* future.event.set
event_set(fs, f) == [fs EXCEPT ![f].ready = TRUE]

\* Future.aresult after event.wait() returned / asyncio future.result():
\* the value read from the result slot
aresult(fut) == fut.result

\* ---------------------------------------------------------------------- Init
Init ==
    /\ variant \in Variants
    /\ queue = <<>>
    /\ futures = <<>>
    /\ callbacks = <<>>
    /\ wpc = "get"
    /\ item = None
    /\ ret = Unset
    /\ ack = FALSE
    /\ tasks = <<>>
    /\ closes = 0
    /\ log = <<>>
    /\ posted = <<>>
    /\ hist = <<>>
    /\ order = <<>>

\* ------------------------------------------------- scheduler thread: callers
\* a send whose put waits while the queue holds an item
send_blocking(c) ==
    /\ Len(futures) < MaxCalls
    /\ queue = <<>>
    /\ futures' = Append(futures, NewFuture(c))
    /\ queue' = put(queue, Len(futures) + 1)
    /\ tasks' = Append(tasks, NewTask)
    /\ hist' = Append(hist, NewHist(closes = 0))
    /\ UNCHANGED <<variant, callbacks, wpc, item, ret, ack, closes, log,
                   posted, order>>

\* send(func, *args): create the future, put it on the queue, return it
send(c) ==
    /\ Len(futures) < MaxCalls
    /\ futures' = Append(futures, NewFuture(c))
    /\ queue' = put(queue, Len(futures) + 1)
    /\ tasks' = Append(tasks, NewTask)
    /\ hist' = Append(hist, NewHist(closes = 0))
    /\ UNCHANGED <<variant, callbacks, wpc, item, ret, ack, closes, log,
                   posted, order>>

AsyncIO_send == variant = "AsyncIO" /\ \E c \in Partials : send(c)
Trio_send == variant = "Trio" /\ \E c \in Partials : send(c)
AnyIO_send == variant = "AnyIO" /\ \E c \in Partials : send(c)

\* a close that puts nothing on the queue
close_forgets ==
    /\ closes < MaxCloses
    /\ closes' = closes + 1
    /\ UNCHANGED <<variant, queue, futures, callbacks, wpc, item, ret, ack,
                   tasks, log, posted, hist, order>>

\* a close that puts None ahead of the items waiting in the queue
close_urgent ==
    /\ closes < MaxCloses
    /\ queue' = <<None>> \o queue
    /\ closes' = closes + 1
    /\ UNCHANGED <<variant, futures, callbacks, wpc, item, ret, ack, tasks,
                   log, posted, hist, order>>

\* close(): self.queue.put(None)
\* a close that discards what waits in the queue before it puts None
close_resets ==
    /\ closes < MaxCloses
    /\ queue' = <<None>>
    /\ closes' = closes + 1
    /\ UNCHANGED <<variant, futures, callbacks, wpc, item, ret, ack, tasks,
                   log, posted, hist, order>>

close ==
    /\ closes < MaxCloses
    /\ queue' = put(queue, None)
    /\ closes' = closes + 1
    /\ UNCHANGED <<variant, futures, callbacks, wpc, item, ret, ack, tasks,
                   log, posted, hist, order>>

AsyncIO_close == variant = "AsyncIO" /\ close
Trio_close == variant = "Trio" /\ close
AnyIO_close == variant = "AnyIO" /\ close

\* await handle: a future that is ready returns its result at once,
\* otherwise the task suspends until the future is ready
AwaitBegin(f) ==
    /\ f \in Ids
    /\ tasks[f].state = "none"
    /\ tasks' = IF futures[f].ready
                THEN [tasks EXCEPT ![f].state = "returned",
                                   ![f].got = aresult(futures[f])]
                ELSE [tasks EXCEPT ![f].state = "waiting",
                                   ![f].suspended = TRUE]
    /\ UNCHANGED <<variant, queue, futures, callbacks, wpc, item, ret, ack,
                   closes, log, posted, hist, order>>

\* an await that clears the future's event when it is resumed
AwaitResume_consuming(f) ==
    /\ f \in Ids
    /\ tasks[f].state = "waiting"
    /\ futures[f].ready
    /\ tasks' = [tasks EXCEPT ![f].state = "returned",
                              ![f].got = aresult(futures[f])]
    /\ futures' = [futures EXCEPT ![f].ready = FALSE]
    /\ UNCHANGED <<variant, queue, callbacks, wpc, item, ret, ack, closes,
                   log, posted, hist, order>>

\* the suspended task is resumed once the future is ready and returns the
\* value in the result slot
AwaitResume(f) ==
    /\ f \in Ids
    /\ tasks[f].state = "waiting"
    /\ futures[f].ready
    /\ tasks' = [tasks EXCEPT ![f].state = "returned",
                              ![f].got = aresult(futures[f])]
    /\ UNCHANGED <<variant, queue, futures, callbacks, wpc, item, ret, ack,
                   closes, log, posted, hist, order>>

\* await handle, once more, by a caller whose await of it has returned:
\* Future.__await__ / the asyncio future's __await__ run again
AwaitAgain(f) ==
    /\ f \in Ids
    /\ tasks[f].state = "returned"
    /\ tasks[f].reawaits < MaxReawaits
    /\ tasks' = IF futures[f].ready
                THEN [tasks EXCEPT ![f].again = aresult(futures[f]),
                                   ![f].reawaits = @ + 1]
                ELSE [tasks EXCEPT ![f].state = "waiting",
                                   ![f].suspended = TRUE,
                                   ![f].reawaits = @ + 1]
    /\ UNCHANGED <<variant, queue, futures, callbacks, wpc, item, ret, ack,
                   closes, log, posted, hist, order>>

Reawait == \E f \in Ids : AwaitAgain(f)

Await == \E f \in Ids : AwaitBegin(f) \/ AwaitResume(f)

\* ------------------------------------------------------------ worker thread
\* a worker that drops a None it dequeues and stays in its loop
worker_get_skips_none ==
    /\ wpc = "get"
    /\ queue # <<>>
    /\ item' = get(queue).item
    /\ queue' = get(queue).rest
    /\ wpc' = IF get(queue).item = None THEN "get" ELSE "call"
    /\ UNCHANGED <<variant, futures, callbacks, ret, ack, tasks, closes, log,
                   posted, hist, order>>

\* while (item := q.get()) is not None: blocks while the queue is empty,
\* leaves the loop on None
worker_get ==
    /\ wpc = "get"
    /\ queue # <<>>
    /\ item' = get(queue).item
    /\ queue' = get(queue).rest
    /\ wpc' = IF get(queue).item = None THEN "exited" ELSE "call"
    /\ UNCHANGED <<variant, futures, callbacks, ret, ack, tasks, closes, log,
                   posted, hist, order>>

\* a worker that catches what call() raises and delivers it as the result
worker_call_caught(next) ==
    /\ wpc = "call"
    /\ log' = Append(log, item)
    /\ wpc' = next
    /\ ret' = Call(futures[item].call)
    /\ UNCHANGED <<variant, queue, futures, callbacks, item, ack, tasks,
                   closes, posted, hist, order>>

\* call(): runs the partial on the worker thread; an exception is not
\* caught and ends the thread
worker_call(next) ==
    /\ wpc = "call"
    /\ log' = Append(log, item)
    /\ IF Call(futures[item].call) = Raises
       THEN wpc' = "dead" /\ ret' = ret
       ELSE wpc' = next /\ ret' = Call(futures[item].call)
    /\ UNCHANGED <<variant, queue, futures, callbacks, item, ack, tasks,
                   closes, posted, hist, order>>

\* a worker that goes on to post without assigning the result
worker_write_skipped ==
    /\ wpc = "write"
    /\ wpc' = "post"
    /\ UNCHANGED <<variant, queue, futures, callbacks, item, ret, ack, tasks,
                   closes, log, posted, hist, order>>

\* future.result = future.call(): the assignment, after call() returned
worker_write ==
    /\ wpc = "write"
    /\ futures' = store_result(futures, item, ret)
    /\ hist' = NoteWrite(hist, item, "worker")
    /\ wpc' = "post"
    /\ UNCHANGED <<variant, queue, callbacks, item, ret, ack, tasks, closes,
                   log, posted, order>>

\* a post that loses the callback
worker_post_lost(cb, blocking) ==
    /\ wpc = "post"
    /\ posted' = Append(posted, item)
    /\ wpc' = IF blocking THEN "blocked" ELSE "get"
    /\ UNCHANGED <<variant, queue, futures, callbacks, item, ret, ack, tasks,
                   closes, log, hist, order>>

\* post a callback to the event loop; blocking: whether the worker then
\* waits for the callback to have run
worker_post(cb, blocking) ==
    /\ wpc = "post"
    /\ callbacks' = Append(callbacks, cb)
    /\ posted' = Append(posted, item)
    /\ wpc' = IF blocking THEN "blocked" ELSE "get"
    /\ UNCHANGED <<variant, queue, futures, item, ret, ack, tasks, closes,
                   log, hist, order>>

\* a worker that calls set_future_result itself instead of posting it
AsyncIO_worker_post_direct ==
    /\ variant = "AsyncIO"
    /\ wpc = "post"
    /\ futures' = set_future_result(futures, item, ret)
    /\ hist' = IF futures[item].ready THEN hist
               ELSE NoteSet(NoteWrite(hist, item, "worker"), item, "worker")
    /\ order' = IF futures[item].ready THEN order ELSE Append(order, item)
    /\ posted' = Append(posted, item)
    /\ wpc' = "get"
    /\ UNCHANGED <<variant, queue, callbacks, item, ret, ack, tasks, closes,
                   log>>

AsyncIO_worker_get == variant = "AsyncIO" /\ worker_get
AsyncIO_worker_call == variant = "AsyncIO" /\ worker_call("post")
\* self.loop.call_soon_threadsafe(self.set_future_result, future, call())
AsyncIO_worker_post ==
    /\ variant = "AsyncIO"
    /\ worker_post([fn |-> "set_future_result", future |-> item,
                    result |-> ret], FALSE)

\* a worker that calls future.event.set itself instead of posting it
Trio_worker_post_direct ==
    /\ variant = "Trio"
    /\ wpc = "post"
    /\ futures' = event_set(futures, item)
    /\ hist' = NoteSet(hist, item, "worker")
    /\ order' = IF futures[item].ready THEN order ELSE Append(order, item)
    /\ posted' = Append(posted, item)
    /\ wpc' = "get"
    /\ UNCHANGED <<variant, queue, callbacks, item, ret, ack, tasks, closes,
                   log>>

\* a post that waits for the event loop as from_thread.run_sync does
Trio_worker_post_blocking ==
    /\ variant = "Trio"
    /\ worker_post([fn |-> "event_set", future |-> item, result |-> Unset],
                   TRUE)

Trio_worker_get == variant = "Trio" /\ worker_get
Trio_worker_call == variant = "Trio" /\ worker_call("write")
Trio_worker_write == variant = "Trio" /\ worker_write
\* self.token.run_sync_soon(future.event.set)
Trio_worker_post ==
    /\ variant = "Trio"
    /\ worker_post([fn |-> "event_set", future |-> item, result |-> Unset],
                   FALSE)

\* a post that does not wait for the event loop, as run_sync_soon does
AnyIO_worker_post_nonblocking ==
    /\ variant = "AnyIO"
    /\ worker_post([fn |-> "event_set", future |-> item, result |-> Unset],
                   FALSE)

AnyIO_worker_get == variant = "AnyIO" /\ worker_get
AnyIO_worker_call == variant = "AnyIO" /\ worker_call("write")
AnyIO_worker_write == variant = "AnyIO" /\ worker_write
\* anyio.from_thread.run_sync(future.event.set, token=self.token): posts
\* the call to the event loop thread and waits for its return value
AnyIO_worker_post ==
    /\ variant = "AnyIO"
    /\ worker_post([fn |-> "event_set", future |-> item, result |-> Unset],
                   TRUE)

\* from_thread.run_sync returns once the event loop has run the callback
AnyIO_worker_resume ==
    /\ variant = "AnyIO"
    /\ wpc = "blocked"
    /\ ack
    /\ ack' = FALSE
    /\ wpc' = "get"
    /\ UNCHANGED <<variant, queue, futures, callbacks, item, ret, tasks,
                   closes, log, posted, hist, order>>

\* ------------------------------------------- scheduler thread: the event loop
\* an event loop that runs the newest posted callback first
run_callback_lifo ==
    /\ callbacks # <<>>
    /\ LET cb == callbacks[Len(callbacks)]
           f == cb.future
       IN /\ callbacks' = SubSeq(callbacks, 1, Len(callbacks) - 1)
          /\ IF cb.fn = "set_future_result"
             THEN /\ futures' = set_future_result(futures, f, cb.result)
                  /\ hist' = NoteRun(IF futures[f].ready THEN hist
                                     ELSE NoteSet(NoteWrite(hist, f,
                                                            "scheduler"),
                                                  f, "scheduler"), f)
             ELSE /\ futures' = event_set(futures, f)
                  /\ hist' = NoteRun(NoteSet(hist, f, "scheduler"), f)
          /\ order' = IF futures[f].ready THEN order ELSE Append(order, f)
    /\ ack' = (variant = "AnyIO")
    /\ UNCHANGED <<variant, queue, wpc, item, ret, tasks, closes, log,
                   posted>>

\* the event loop runs the oldest posted callback
run_callback ==
    /\ callbacks # <<>>
    /\ LET cb == Head(callbacks)
           f == cb.future
       IN /\ callbacks' = Tail(callbacks)
          /\ IF cb.fn = "set_future_result"
             THEN /\ futures' = set_future_result(futures, f, cb.result)
                  /\ hist' = NoteRun(IF futures[f].ready THEN hist
                                     ELSE NoteSet(NoteWrite(hist, f,
                                                            "scheduler"),
                                                  f, "scheduler"), f)
             ELSE /\ futures' = event_set(futures, f)
                  /\ hist' = NoteRun(NoteSet(hist, f, "scheduler"), f)
          /\ order' = IF futures[f].ready THEN order ELSE Append(order, f)
    /\ ack' = (variant = "AnyIO")
    /\ UNCHANGED <<variant, queue, wpc, item, ret, tasks, closes, log,
                   posted>>

AsyncIO_run_callback == variant = "AsyncIO" /\ run_callback
Trio_run_callback == variant = "Trio" /\ run_callback
AnyIO_run_callback == variant = "AnyIO" /\ run_callback

\* ---------------------------------------------------------------------- Next
Worker ==
    \/ AsyncIO_worker_get \/ AsyncIO_worker_call \/ AsyncIO_worker_post
    \/ Trio_worker_get \/ Trio_worker_call \/ Trio_worker_write
    \/ Trio_worker_post
    \/ AnyIO_worker_get \/ AnyIO_worker_call \/ AnyIO_worker_write
    \/ AnyIO_worker_post \/ AnyIO_worker_resume

Loop == AsyncIO_run_callback \/ Trio_run_callback \/ AnyIO_run_callback

Next ==
    \/ AsyncIO_send \/ Trio_send \/ AnyIO_send
    \/ AsyncIO_close \/ Trio_close \/ AnyIO_close
    \/ Await
    \/ Worker
    \/ Loop

Spec == Init /\ [][Next]_vars

\* The worker thread is scheduled whenever it can run, the event loop keeps
\* running its posted callbacks and resuming the tasks that became runnable.
FairNext == Next /\ Len(futures') <= LiveCalls /\ closes' <= LiveCloses

FairSpec ==
    /\ Init
    /\ [][FairNext]_vars
    /\ WF_vars(Worker)
    /\ WF_vars(Loop)
    /\ \A f \in 1..LiveCalls : WF_vars(AwaitResume(f))

\* a send / a close of the controller constructed
Send == AsyncIO_send \/ Trio_send \/ AnyIO_send
Close == AsyncIO_close \/ Trio_close \/ AnyIO_close

\* Only the event loop is sure to run: it keeps running its posted
\* callbacks and resuming the tasks that became runnable, whatever the
\* worker thread and the callers do.
LoopFairSpec ==
    /\ Init
    /\ [][FairNext]_vars
    /\ WF_vars(Loop)
    /\ \A f \in 1..LiveCalls : WF_vars(AwaitResume(f))

\* --------------------------------------------------- a reused AsyncIO handle
\* The values a callable can return
Values == {Call(c) : c \in Partials} \ {Raises}

\* sequences of at most n elements of S
SeqUpTo(S, n) == UNION {[1..k -> S] : k \in 0..n}

\* An AsyncIO controller whose event loop holds set_future_result callbacks
\* for futures that may be resolved already: a handle used more than once,
\* so that several callbacks, with whatever results, are posted for it.
ResolveInit ==
    /\ variant = "AsyncIO"
    /\ queue = <<>>
    /\ futures \in {fs \in SeqUpTo({NewFuture(c) : c \in Partials}, LiveCalls) :
                      Len(fs) > 0 /\ \A f \in 1..Len(fs) : Call(fs[f].call) # Raises}
    /\ callbacks \in SeqUpTo([fn : {"set_future_result"}, future : Ids,
                              result : Values], MaxResolves)
    /\ wpc = "get"
    /\ item = None
    /\ ret = Unset
    /\ ack = FALSE
    /\ tasks = [f \in Ids |-> NewTask]
    /\ closes = 0
    /\ log = <<>>
    /\ posted = <<>>
    /\ hist = [f \in Ids |-> NewHist(TRUE)]
    /\ order = <<>>

ResolveNext == AsyncIO_run_callback \/ Await

ResolveSpec == ResolveInit /\ [][ResolveNext]_vars

\* ------------------------------------------------------- repeated awaits
\* The controller with callers that await a handle again after their await
\* of it returned.
AwaitNext ==
    (Next \/ Reawait) /\ Len(futures') <= LiveCalls /\ closes' <= LiveCloses

AwaitSpec == Init /\ [][AwaitNext]_vars

\* ------------------------------------------------------------------ helpers
InSeq(x, s) == \E i \in 1..Len(s) : s[i] = x
Count(x, s) == Cardinality({i \in 1..Len(s) : s[i] = x})

\* the value the callable of future f returns with the arguments bound at send
Value(f) == Call(futures[f].call)

\* the call of f and the calls submitted ahead of it all return normally
NormalUpTo(f) == \A g \in 1..f : Value(g) # Raises

\* the worker thread is inside its loop and not waiting in q.get()
WorkerBusy == wpc \notin {"get", "exited", "dead"}

\* ------------------------------------------------------------------- claims
\* C1: an await of the handle a send returned yields the value of that
\* handle's own callable with the arguments bound at submission, never the
\* result of another call.
C1_AwaitYieldsOwnValue ==
    \A f \in Ids : tasks[f].state = "returned" => tasks[f].got = Value(f)

\* two handles whose callables return different values have both been awaited
C1_Witness ==
    \E f, g \in Ids :
        /\ tasks[f].state = "returned"
        /\ tasks[g].state = "returned"
        /\ tasks[f].got # tasks[g].got

\* C2: the worker runs the callables in the order they were enqueued: the
\* i-th execution is that of the i-th submitted call.
C2_FifoExecution == \A i \in 1..Len(log) : log[i] = i

\* three calls were waiting in the queue together and all three have run
C2_Witness == Len(log) >= 3 /\ hist[3].early /\ Len(posted) >= 3

\* C3: no call is lost or duplicated: every call sent is at any time
\* exactly one of waiting in the queue, dequeued and about to run, or run
\* once; when the worker has left its loop every call enqueued before the
\* first None has run exactly once; and when every handle has been awaited
\* to completion and close() was called, the number of executions equals
\* the number of sends and every handle is resolved.
C3_ExactlyOnce ==
    /\ \A f \in Ids :
          Count(f, queue) + Count(f, log)
              + (IF wpc = "call" /\ item = f THEN 1 ELSE 0) = 1
    /\ wpc = "exited" => \A f \in Ids : hist[f].early => Count(f, log) = 1
    /\ (closes > 0 /\ \A f \in Ids : tasks[f].state = "returned")
          => /\ Len(log) = Len(futures)
             /\ \A f \in Ids : futures[f].ready

\* three send/await rounds completed, close() was called, the worker exited
C3_Witness ==
    /\ Len(futures) = 3
    /\ \A f \in Ids : tasks[f].state = "returned" /\ hist[f].early
    /\ wpc = "exited"

\* C4: a handle sent before close() whose call, and the calls ahead of it,
\* return normally is eventually resolved, and a task suspended on it is
\* eventually resumed.
C4_EventuallyResolved ==
    \A f \in 1..LiveCalls :
        /\ (f \in Ids /\ hist[f].early /\ NormalUpTo(f))
              ~> (f \in Ids /\ futures[f].ready)
        /\ (f \in Ids /\ hist[f].early /\ NormalUpTo(f)
                /\ tasks[f].state = "waiting")
              ~> (f \in Ids /\ tasks[f].state = "returned")

\* the tasks suspended on two handles sent before close() have both been
\* resumed
C4_Witness ==
    /\ Len(futures) = 2
    /\ closes > 0
    /\ \A f \in Ids :
          hist[f].early /\ tasks[f].suspended /\ tasks[f].state = "returned"

\* C5: when the worker has left its loop, every call enqueued before the
\* first None has been run and its notification has been posted.
C5_ShutdownDrains ==
    wpc = "exited" =>
        \A f \in Ids : hist[f].early => InSeq(f, log) /\ InSeq(f, posted)

\* the worker exited after close() was called with two calls in the queue
C5_Witness ==
    /\ wpc = "exited"
    /\ Len(posted) >= 2
    /\ \E f \in Ids : ~hist[f].early

\* C6: whenever a future is ready (asyncio future done, Future's event set)
\* its result slot holds the value its callable returned, so a resumed
\* awaiter never reads an unwritten slot.
C6_ReadyAfterResult ==
    \A f \in Ids :
        /\ futures[f].ready => futures[f].result = Value(f)
        /\ tasks[f].state = "returned" => tasks[f].got # Unset

\* the event of a Future is set while its awaiter is still suspended
C6_Witness ==
    \E f \in Ids :
        /\ variant \in {"Trio", "AnyIO"}
        /\ futures[f].ready
        /\ tasks[f].state = "waiting"

\* C7: the result slot of a call is assigned at most once, exactly once by
\* the time its future is ready, and never before its callable has returned.
C7_WrittenOnceAfterCall ==
    \A f \in Ids :
        /\ hist[f].writes <= 1
        /\ futures[f].ready => hist[f].writes = 1
        /\ hist[f].writes >= 1 => InSeq(f, log) /\ ~(wpc = "call" /\ item = f)
        /\ futures[f].result # Unset => hist[f].writes = 1

\* every one of three futures has had its slot written
C7_Witness ==
    /\ Len(futures) = 3
    /\ \A f \in Ids : hist[f].writes = 1

\* C8 as stated: in every variant the result slot is written by the worker
\* thread and never by the scheduler thread.
C8_WorkerWritesSlot == \A f \in Ids : hist[f].writer \subseteq {"worker"}

\* C8 amended: Trio and AnyIO write the slot on the worker thread; AsyncIO
\* writes it on the scheduler thread, in the posted set_future_result.
C8_WriterPerVariant ==
    \A f \in Ids :
        /\ variant \in {"Trio", "AnyIO"} => hist[f].writer \subseteq {"worker"}
        /\ variant = "AsyncIO" => hist[f].writer \subseteq {"scheduler"}

\* an AsyncIO future written by the scheduler, or a Future by the worker
C8_Witness ==
    \E f \in Ids :
        \/ variant = "AsyncIO" /\ hist[f].writer = {"scheduler"}
        \/ variant = "Trio" /\ hist[f].writer = {"worker"} /\ Len(order) >= 2

\* C9: a future is marked ready (set_result, event.set) only by the
\* scheduler thread, running a callback the worker had posted.
C9_ReadyOnlyOnScheduler ==
    \A f \in Ids :
        /\ hist[f].setter \subseteq {"scheduler"}
        /\ futures[f].ready => hist[f].setter = {"scheduler"} /\ InSeq(f, posted)

\* in each variant's order: two futures made ready by the scheduler
C9_Witness ==
    /\ Len(order) >= 2
    /\ \A i \in 1..Len(order) : hist[order[i]].setter = {"scheduler"}

\* C10 as stated: in every variant the worker waits for nothing but
\* q.get(): inside the loop it can always take its next step.
C10_BlocksOnlyOnGet == WorkerBusy => ENABLED Worker

\* C10 amended: so it is for AsyncIO and Trio; the AnyIO worker waits in
\* from_thread.run_sync until the event loop has run the callback, so it
\* never dequeues or runs a call while a notification is pending.
C10_BlockingPerVariant ==
    /\ variant \in {"AsyncIO", "Trio"} => (WorkerBusy => ENABLED Worker)
    /\ variant = "AnyIO" =>
          /\ wpc # "blocked" => callbacks = <<>>
          /\ wpc = "blocked" => Len(callbacks) + (IF ack THEN 1 ELSE 0) = 1

\* the Trio or AsyncIO worker runs the next call while the notification of
\* the previous one has not been run
C10_Witness ==
    /\ variant \in {"AsyncIO", "Trio"}
    /\ wpc = "call"
    /\ callbacks # <<>>

\* C11: send never blocks: while the caller has sends left it is enabled
\* whatever the queue holds and whatever the worker is doing, and a send
\* appends exactly one item, the new future, to the queue and returns the
\* future pending, without any step of the worker.
C11_SendNeverBlocks ==
    /\ [](Len(futures) < MaxCalls => ENABLED Send)
    /\ [][Send => /\ Len(futures') = Len(futures) + 1
                  /\ queue' = Append(queue, Len(futures'))
                  /\ ~futures'[Len(futures')].ready
                  /\ futures'[Len(futures')].result = Unset
                  /\ tasks'[Len(futures')].state = "none"
                  /\ <<wpc, item, ret, log, posted, callbacks>>'
                        = <<wpc, item, ret, log, posted, callbacks>>]_vars

\* a third call was sent while two items were waiting and the worker was
\* running a call
C11_Witness ==
    /\ Len(futures) = 3
    /\ wpc = "call"
    /\ item = 1
    /\ Len(queue) >= 3

\* C12: close() is always enabled and only appends None to the queue,
\* without any step of the worker; the worker leaves its loop only by
\* dequeuing None; and once close() was called the worker eventually leaves
\* its loop, provided every call sent before the close returns normally.
C12_CloseThenExit ==
    /\ [](closes < MaxCloses => ENABLED Close)
    /\ [][Close => /\ queue' = Append(queue, None)
                   /\ <<wpc, item, ret, log, posted, callbacks, futures>>'
                         = <<wpc, item, ret, log, posted, callbacks, futures>>]_vars
    /\ [][(wpc # "exited" /\ wpc' = "exited")
             => (wpc = "get" /\ queue # <<>> /\ Head(queue) = None
                   /\ item' = None /\ queue' = Tail(queue))]_vars
    /\ (closes > 0 /\ \A f \in Ids : hist[f].early => Value(f) # Raises)
          ~> (wpc = "exited")

\* the worker has run two calls sent before close() and left its loop on
\* the None that close() put
C12_Witness ==
    /\ wpc = "exited"
    /\ closes > 0
    /\ Len(log) = 2
    /\ queue = <<>>
    /\ \A f \in Ids : hist[f].early /\ futures[f].ready

\* C13: AsyncIO.set_future_result on a future that is already resolved is a
\* no-op: the future keeps its first result whatever result the callback
\* carries, set_result is not reached so nothing is raised, and applying
\* the callback twice gives the state applying it once gives.
C13_ResolveIdempotent ==
    /\ [](\A f \in Ids : \A r, r2 \in Values :
            LET once == set_future_result_call(futures, f, r)
                twice == set_future_result_call(once.futures, f, r2)
            IN /\ ~once.raised /\ ~twice.raised
               /\ twice.futures = once.futures
               /\ futures[f].ready => once.futures = futures)
    /\ [][\A f \in Ids : futures[f].ready => futures'[f] = futures[f]]_vars

\* the loop has run two callbacks for a future and the future holds the
\* result of the first, which the second did not carry
C13_Witness ==
    \E f \in Ids :
        /\ hist[f].runs >= 2
        /\ futures[f].ready
        /\ hist[f].writes = 1
        /\ callbacks = <<>>
        /\ tasks[f].state = "returned"

\* C14: an await of a handle whose await has returned returns the value the
\* first await returned, leaves the task running instead of suspending it,
\* and puts nothing on the queue and runs no call: the call of the handle
\* has run once and is not in the queue.
C14_ReawaitCached ==
    /\ [](\A f \in Ids :
            tasks[f].reawaits > 0 =>
                /\ tasks[f].state = "returned"
                /\ tasks[f].again = tasks[f].got
                /\ Count(f, log) = 1
                /\ Count(f, queue) = 0)
    /\ [][Reawait => <<queue, log, futures, callbacks, wpc>>'
                        = <<queue, log, futures, callbacks, wpc>>]_vars

\* a handle on which a task had been suspended has been awaited again, in
\* a Trio or AnyIO controller
C14_Witness ==
    \E f \in Ids :
        /\ variant \in {"Trio", "AnyIO"}
        /\ tasks[f].suspended
        /\ tasks[f].reawaits > 0
        /\ tasks[f].again = Value(f)

\* the callback of future f is among the callbacks the loop has yet to run
Pending(f) == \E i \in 1..Len(callbacks) : callbacks[i].future = f

\* C15: once the worker has posted the notification of a result, the
\* callback waits in the loop's queue until the loop runs it; the loop can
\* run its oldest callback whatever the worker and the callers do, and
\* running it makes the handle ready, which lets the suspended awaiter
\* resume; so with the loop alone running, the handle becomes ready and its
\* awaiter returns.
C15_ResolvedByLoopTurn ==
    /\ [](\A f \in Ids : InSeq(f, posted) => futures[f].ready \/ Pending(f))
    /\ [](callbacks # <<>> => ENABLED Loop)
    /\ [][Loop => /\ futures'[Head(callbacks).future].ready
                  /\ callbacks' = Tail(callbacks)]_vars
    /\ [](\A f \in Ids : (futures[f].ready /\ tasks[f].state = "waiting")
                            => ENABLED AwaitResume(f))
    /\ \A f \in 1..LiveCalls :
          /\ (f \in Ids /\ InSeq(f, posted)) ~> (f \in Ids /\ futures[f].ready)
          /\ (f \in Ids /\ InSeq(f, posted) /\ tasks[f].state = "waiting")
                ~> (f \in Ids /\ tasks[f].state = "returned")

\* a suspended awaiter has returned while the AnyIO worker has not taken a
\* step since it posted the notification
C15_Witness ==
    \E f \in Ids :
        /\ variant = "AnyIO"
        /\ wpc = "blocked"
        /\ item = f
        /\ tasks[f].suspended
        /\ tasks[f].state = "returned"

\* C16: when a call raises, the worker thread is dead from then on: that
\* call is the last it ran, its slot is never written, no notification is
\* posted for it and its handle never becomes ready; every call sent after
\* it, and every None, stays in the queue, never run and never ready; no
\* step of the worker is possible, so none of their awaiters ever returns.
C16_RaiseKillsWorker ==
    /\ wpc = "dead" => Len(log) > 0 /\ Value(log[Len(log)]) = Raises
    /\ \A i \in 1..Len(log) :
          Value(log[i]) = Raises =>
              /\ wpc = "dead"
              /\ i = Len(log)
              /\ ~ENABLED Worker
              /\ ~futures[log[i]].ready
              /\ hist[log[i]].writes = 0
              /\ ~InSeq(log[i], posted)
              /\ ~Pending(log[i])
              /\ tasks[log[i]].state # "returned"
              /\ Count(None, queue) = closes
              /\ \A f \in Ids :
                    f > log[i] =>
                        /\ Count(f, queue) = 1
                        /\ ~InSeq(f, log)
                        /\ ~futures[f].ready
                        /\ tasks[f].state # "returned"

\* the second of three calls raised: the awaiters of the second and third
\* are suspended, the third call and a None are in the queue
C16_Witness ==
    /\ wpc = "dead"
    /\ log = <<1, 2>>
    /\ queue = <<3, None>>
    /\ tasks[1].state = "returned"
    /\ tasks[2].state = "waiting"
    /\ tasks[3].state = "waiting"

\* C17: a worker that has dequeued None takes no further step, whatever
\* the queue holds; a call sent after a close() stays in the queue, is
\* never run, its slot is never written, its handle never becomes ready
\* and its awaiter never returns; and send after close() is enabled as
\* before, so the caller gets a handle and no error.
C17_BehindSentinelNeverRuns ==
    /\ wpc = "exited" => item = None /\ ~ENABLED Worker
    /\ \A f \in Ids :
          ~hist[f].early =>
              /\ Count(f, queue) = 1
              /\ ~InSeq(f, log)
              /\ ~futures[f].ready
              /\ futures[f].result = Unset
              /\ tasks[f].state # "returned"
    /\ (closes > 0 /\ Len(futures) < MaxCalls) => ENABLED Send

\* the worker has left its loop, and a call sent after the close() is in
\* the queue with its awaiter suspended
C17_Witness ==
    /\ wpc = "exited"
    /\ \E f \in Ids :
          /\ ~hist[f].early
          /\ queue # <<>> /\ Head(queue) = f
          /\ tasks[f].state = "waiting"

\* C18: handles become ready in the order the worker produced their
\* results: the notifications are posted in the order the calls ran, the
\* futures become ready in the order the notifications were posted, and a
\* future is never ready while the future of a call that ran earlier is not.
C18_ResolvedInProducedOrder ==
    /\ Len(posted) <= Len(log)
    /\ \A i \in 1..Len(posted) : posted[i] = log[i]
    /\ Len(order) <= Len(posted)
    /\ \A i \in 1..Len(order) : order[i] = posted[i]
    /\ \A i, j \in 1..Len(log) :
          (i < j /\ futures[log[j]].ready) => futures[log[i]].ready

\* the loop holds the notifications of two results and has run the older
\* one only
C18_Witness ==
    /\ Len(posted) >= 2
    /\ Len(callbacks) = 1
    /\ Len(order) = Len(posted) - 1
    /\ ~futures[posted[Len(posted)]].ready
    /\ variant \in {"AsyncIO", "Trio"}
    /\ wpc = "get"

\* C19 as stated: Trio and AnyIO admit the same interleavings of
\* executions, result writes and resolutions, so what holds of the
\* interleavings of one holds of those of the other: the AnyIO worker
\* runs a call only when the handles of all earlier calls are ready, and
\* so would the Trio worker.
C19_SameInterleavings ==
    variant \in {"Trio", "AnyIO"} => Len(log) <= Len(order) + 1

\* C19 amended: in Trio and in AnyIO alike each call is run, then its slot
\* is written by the worker, then its future is set ready by the scheduler,
\* call after call in the order of submission and with the callable's
\* value; but only the AnyIO worker waits for the handle to be ready before
\* it dequeues the next call, so that AnyIO never shows a call run while
\* the handle of an earlier call is not ready.
C19_TrioAnyIODiffer ==
    /\ variant = "AnyIO" => Len(log) <= Len(order) + 1
    /\ variant = "AnyIO" =>
          \A i \in 1..Len(log) : i < Len(log) => futures[log[i]].ready
    /\ variant \in {"Trio", "AnyIO"} =>
          /\ \A f \in Ids :
                /\ hist[f].writes >= 1 => InSeq(f, log) /\ hist[f].writer = {"worker"}
                /\ futures[f].ready =>
                      /\ hist[f].writes = 1
                      /\ hist[f].setter = {"scheduler"}
                      /\ futures[f].result = Value(f)
          /\ Len(order) <= Len(log)
          /\ \A i \in 1..Len(order) : order[i] = log[i]

\* the Trio worker has run three calls and no handle is ready yet
C19_Witness ==
    /\ variant = "Trio"
    /\ Len(log) = 3
    /\ Len(posted) = 3
    /\ order = <<>>

\* the position of the first None of q, Len(q) + 1 when q holds none
FirstNone(q) ==
    IF InSeq(None, q)
    THEN CHOOSE i \in 1..Len(q) :
            q[i] = None /\ \A j \in 1..(i - 1) : q[j] # None
    ELSE Len(q) + 1

\* the calls that wait in the queue in front of the first sentinel
Ahead == {queue[i] : i \in 1..(FirstNone(queue) - 1)}

\* C20: calling close again is harmless: the call is enabled and changes
\* nothing but the queue, which gets one more None at its end, behind the
\* first one; the calls waiting in front of the first sentinel stay the
\* same and leave the queue only by being dequeued by the worker, which
\* then runs them; the worker exits on the first sentinel, when no such
\* call is left, and from then on dequeues and runs nothing, so that the
\* remaining sentinels, one less than the calls of close, stay in the queue.
C20_SecondCloseHarmless ==
    /\ [](closes < MaxCloses => ENABLED Close)
    /\ [](Count(None, queue) = closes - (IF wpc = "exited" THEN 1 ELSE 0))
    /\ [][/\ (closes >= 1 /\ closes' = closes + 1) =>
                /\ queue' = Append(queue, None)
                /\ FirstNone(queue') = FirstNone(queue) \/ wpc = "exited"
                /\ <<futures, callbacks, wpc, item, ret, ack, tasks, log,
                     posted, hist, order>>'
                      = <<futures, callbacks, wpc, item, ret, ack, tasks,
                          log, posted, hist, order>>
          /\ (closes >= 1 /\ wpc # "exited" /\ wpc' # "exited") =>
                /\ Ahead' \subseteq Ahead
                /\ \A f \in Ahead \ Ahead' :
                      wpc = "get" /\ wpc' = "call" /\ item' = f
          /\ (wpc # "exited" /\ wpc' = "exited") =>
                /\ Ahead = {}
                /\ queue' = Tail(queue)
                /\ log' = log
          /\ wpc = "exited" =>
                /\ wpc' = "exited"
                /\ log' = log
                /\ \A i \in 1..Len(queue) : queue'[i] = queue[i]
          /\ (wpc = "call" /\ wpc' # "call") => log' = Append(log, item)
         ]_vars

\* close was called twice with two calls in the queue; the worker ran both
\* calls, exited on the first sentinel and left the second one in the queue
C20_Witness ==
    /\ closes = 2
    /\ wpc = "exited"
    /\ queue = <<None>>
    /\ log = <<1, 2>>
    /\ \A f \in {1, 2} : futures[f].ready /\ futures[f].result = Value(f)

====
